---- MODULE Spec2Model ----
(***************************************************************************)
(* URL shortener (backend/server.js over the table urls of the schema      *)
(* file).  Each HTTP request is an async handler: it runs to its first     *)
(* `await pool.query(...)`, the statement executes atomically in the       *)
(* store, and the handler resumes with the rows or the error.              *)
(*                                                                         *)
(* Strings (URLs, short codes, path segments) are tuples of one-character  *)
(* strings, so that startsWith and the generator work on characters.       *)
(***************************************************************************)
EXTENDS Integers, Sequences, FiniteSets, TLC

\* ---------------------------------------------------------------- bounds
\* Number of HTTP requests that arrive in a behaviour.
MaxReq == 2
\* Number of distinct values the random source yields for a code's last symbol.
MaxDraw == 2

\* ------------------------------------------------------ program constants
\* customAlphabet(..., 6)
CodeLen == 6
\* while (attempts < 5)
MaxAttempts == 5
\* clicks INTEGER: PostgreSQL int4, an increment past it raises an error
IntMax == 2147483647
\* LIMIT 100
ListLimit == 100

Alphabet ==
  << "a", "b", "c", "d", "e", "f", "g", "h", "i", "j", "k", "l", "m",
     "n", "o", "p", "q", "r", "s", "t", "u", "v", "w", "x", "y", "z",
     "0", "1", "2", "3", "4", "5", "6", "7", "8", "9" >>

\* A JSON body field that is missing (JavaScript undefined); also the value of
\* a response field that the handler did not send.
Undefined == << "undefined" >>

\* ----------------------------------------------------------------- inputs
UrlA == << "h", "t", "t", "p", ":", "a" >>
UrlB == << "h", "t", "t", "p", ":", "b" >>
UrlD == << "h", "t", "t", "p", ":", "d" >>
\* the shortest string that passes the validation
UrlC == << "h", "t", "t", "p" >>
\* contains "http" but does not start with it
UrlX == << "x", "h", "t", "t", "p" >>
Empty == << >>

Bodies == { Undefined, Empty, UrlX, UrlA, UrlC }

CodeA == << "a", "a", "a", "a", "a", "a" >>
CodeB == << "a", "a", "a", "a", "a", "b" >>
Api == << "a", "p", "i" >>
Health == << "h", "e", "a", "l", "t", "h" >>

\* :shortCode of /api/urls/:shortCode
PathCodes == { CodeA, CodeB }
\* :shortCode of /:shortCode.  GET /health is served by the route registered
\* before it, so of the two reserved segments only "api" arrives here.
RedirectPaths == PathCodes \cup { Api }

Reqs == 1 .. MaxReq

\* ------------------------------------------------------------- the store
\* Rows the table may hold when the server starts.
RowA == [ id |-> 1, short_code |-> CodeA, long_url |-> UrlA, created_at |-> 1, clicks |-> 0 ]
RowA2 == [ id |-> 2, short_code |-> CodeA, long_url |-> UrlA, created_at |-> 2, clicks |-> IntMax - 1 ]
RowB == [ id |-> 3, short_code |-> CodeB, long_url |-> UrlB, created_at |-> 2, clicks |-> 0 ]
\* a row whose code is a reserved path segment (VARCHAR(10) admits it)
RowApi == [ id |-> 4, short_code |-> Api, long_url |-> UrlD, created_at |-> 3, clicks |-> 0 ]
SeedRows == { RowA, RowA2, RowB, RowApi }

\* id SERIAL PRIMARY KEY
PrimaryKey(tbl) == \A x, y \in tbl : x.id = y.id => x = y

\* Variant: the column declared without UNIQUE.
ShortCodeNotUnique(tbl) == tbl = tbl

\* short_code VARCHAR(10) UNIQUE NOT NULL
ShortCodeUnique(tbl) == \A x, y \in tbl : x.short_code = y.short_code => x = y

\* CREATE TABLE urls: the constraints every table state satisfies
TableOK(tbl) ==
  /\ PrimaryKey(tbl)
  /\ ShortCodeUnique(tbl)
  /\ \A x \in tbl : Len(x.short_code) <= 10 /\ x.long_url # Undefined

RowsByCode(tbl, code) == { x \in tbl : x.short_code = code }

\* A statement's outcome: the table afterwards, the rows returned, or an error.
Result(tbl, rows, err) == [ tbl |-> tbl, rows |-> rows, err |-> err ]

\* Variant: the look-up without its WHERE clause.
SelectEveryRow(tbl, url) == Result(tbl, tbl, FALSE)

\* 'SELECT short_code FROM urls WHERE long_url = $1'
SelectByLongUrl(tbl, url) == Result(tbl, { x \in tbl : x.long_url = url }, FALSE)

\* 'SELECT if FROM urls WHERE short_code = $1': the table has no column "if",
\* so the statement is rejected whatever the table holds.
CheckQuery(tbl, code) == Result(tbl, {}, TRUE)

\* 'INSERT INTO urls (short_code, long_url) VALUES ($1, $2)': id from the
\* sequence, created_at and clicks from their defaults; a duplicate short_code
\* is rejected.
InsertUrl(tbl, id, code, url, at) ==
  LET row == [ id |-> id, short_code |-> code, long_url |-> url,
               created_at |-> at, clicks |-> 0 ]
  IN  IF ShortCodeUnique(tbl \cup { row }) /\ Len(code) <= 10
      THEN Result(tbl \cup { row }, { row }, FALSE)
      ELSE Result(tbl, {}, TRUE)

\* 'SELECT id, short_code, long_url, created_at, clicks FROM urls WHERE short_code = $1'
SelectByCode(tbl, code) == Result(tbl, RowsByCode(tbl, code), FALSE)

\* Variant: the UPDATE without its WHERE clause.
UpdateEveryRow(tbl, url, code) ==
  LET new == { [ x EXCEPT !.long_url = url ] : x \in tbl }
  IN  Result(new, new, FALSE)

\* Variant: the UPDATE also resets the counter.
UpdateResetsClicks(tbl, url, code) ==
  LET hit == RowsByCode(tbl, code)
      new == { [ x EXCEPT !.long_url = url, !.clicks = 0 ] : x \in hit }
  IN  Result((tbl \ hit) \cup new, new, FALSE)

\* 'UPDATE urls SET long_url = $1 WHERE short_code = $2 RETURNING *'
UpdateLongUrl(tbl, url, code) ==
  LET hit == RowsByCode(tbl, code)
      new == { [ x EXCEPT !.long_url = url ] : x \in hit }
  IN  Result((tbl \ hit) \cup new, new, FALSE)

\* Variant: a soft delete that reports the row and keeps it.
DeleteKeepsRow(tbl, code) == Result(tbl, RowsByCode(tbl, code), FALSE)

\* Variant: the DELETE without RETURNING, so that no row comes back.
DeleteWithoutReturning(tbl, code) == Result(tbl \ RowsByCode(tbl, code), {}, FALSE)

\* 'DELETE FROM urls WHERE short_code = $1 RETURNING short_code'
DeleteByCode(tbl, code) ==
  LET hit == RowsByCode(tbl, code)
  IN  Result(tbl \ hit, hit, FALSE)

\* Variant: the counter written from a value computed outside the statement
\* (a first click read as 0 and written back as 1).
WriteClicksOne(tbl, code) ==
  LET hit == RowsByCode(tbl, code)
      new == { [ x EXCEPT !.clicks = 1 ] : x \in hit }
  IN  Result((tbl \ hit) \cup new, new, FALSE)

\* Variant: 'SET clicks = clicks - 1'.
DecrementClicks(tbl, code) ==
  LET hit == RowsByCode(tbl, code)
      new == { [ x EXCEPT !.clicks = x.clicks - 1 ] : x \in hit }
  IN  Result((tbl \ hit) \cup new, new, FALSE)

\* Variant: the increment without its WHERE clause.
IncrementEveryRow(tbl, code) ==
  IF \E x \in tbl : x.clicks >= IntMax
  THEN Result(tbl, {}, TRUE)
  ELSE LET new == { [ x EXCEPT !.clicks = x.clicks + 1 ] : x \in tbl }
       IN  Result(new, { x \in new : x.short_code = code }, FALSE)

\* 'UPDATE urls SET clicks = clicks + 1 WHERE short_code = $1 RETURNING long_url'
\* One statement: the read, the increment and the write are atomic.  int4
\* overflow aborts the statement.
IncrementClicks(tbl, code) ==
  LET hit == RowsByCode(tbl, code)
  IN  IF \E x \in hit : x.clicks >= IntMax
      THEN Result(tbl, {}, TRUE)
      ELSE LET new == { [ x EXCEPT !.clicks = x.clicks + 1 ] : x \in hit }
           IN  Result((tbl \ hit) \cup new, new, FALSE)

\* x comes before y under ORDER BY created_at DESC; rows with equal created_at
\* come in the order the scan yields them, which the statement does not fix:
\* `asc` stands for that order (by id, upwards or downwards).
Before(x, y, asc) ==
  \/ x.created_at > y.created_at
  \/ /\ x.created_at = y.created_at
     /\ IF asc THEN x.id <= y.id ELSE x.id >= y.id

RECURSIVE SortDesc(_, _)
SortDesc(tbl, asc) ==
  IF tbl = {}
  THEN << >>
  ELSE LET top == CHOOSE x \in tbl : \A y \in tbl : Before(x, y, asc)
       IN  << top >> \o SortDesc(tbl \ { top }, asc)

\* Variant: ORDER BY created_at ASC.
RECURSIVE SortAsc(_, _)
SortAsc(tbl, asc) ==
  IF tbl = {}
  THEN << >>
  ELSE LET top == CHOOSE x \in tbl : \A y \in tbl : Before(y, x, asc)
       IN  << top >> \o SortAsc(tbl \ { top }, asc)

ListOldestFirst(tbl, asc) ==
  LET all == SortAsc(tbl, asc)
  IN  Result(tbl, SubSeq(all, 1, IF Len(all) < ListLimit THEN Len(all) ELSE ListLimit), FALSE)

\* 'SELECT id, short_code, long_url, created_at, clicks FROM urls
\*  ORDER BY created_at DESC LIMIT 100'; the rows are a sequence here.
ListQuery(tbl, asc) ==
  LET all == SortDesc(tbl, asc)
  IN  Result(tbl, SubSeq(all, 1, IF Len(all) < ListLimit THEN Len(all) ELSE ListLimit), FALSE)

\* ------------------------------------------------------- service helpers
\* Variant: url.includes('http')
IncludesHttp(s) ==
  \E i \in 1 .. Len(s) : i + 3 <= Len(s) /\ SubSeq(s, i, i + 3) = << "h", "t", "t", "p" >>

\* url.startsWith('http')
StartsWithHttp(s) == Len(s) >= 4 /\ SubSeq(s, 1, 4) = << "h", "t", "t", "p" >>

\* Variant: only `!url` is tested.
NonEmptyUrl(url) == url # Undefined /\ url # Empty

\* the negation of `!url || !url.startsWith('http')`
IsValidUrl(url) == url # Undefined /\ url # Empty /\ StartsWithHttp(url)

\* Variant: the handler without its test of the reserved segments.
NeverReserved(code) == code # code

\* shortCode === 'api' || shortCode === 'health'
Reserved(code) == code = Api \/ code = Health

\* nanoid(): CodeLen symbols of the alphabet, one per random index
nanoid(draws) == [ i \in 1 .. CodeLen |-> Alphabet[draws[i]] ]

\* The codes the generator returns for the random indexes explored here.
RandomCodes ==
  { nanoid([ i \in 1 .. CodeLen |-> IF i = CodeLen THEN d ELSE 1 ]) : d \in 1 .. MaxDraw }

\* ------------------------------------------------------------------ state
VARIABLES
  store,    \* the rows of table urls
  seq,      \* urls_id_seq: the next id
  clock,    \* CURRENT_TIMESTAMP
  req,      \* the requests: operation, inputs, position in the handler, response
  init,     \* history: the table as it was when the server started
  deleted   \* history: codes removed by a delete and not inserted since

vars == << store, seq, clock, req, init, deleted >>

NoResp == [ status |-> 0, msg |-> "", shortCode |-> Undefined, longUrl |-> Undefined,
            id |-> 0, createdAt |-> 0, clicks |-> 0, urls |-> << >> ]

Idle == [ op |-> "none", pc |-> "idle", code |-> Undefined, url |-> Undefined,
          attempts |-> 0, res |-> NoResp,
          \* history, for stating the properties:
          gen |-> 0,        \* calls of the generator
          free |-> FALSE,   \* no row had the candidate when its check ran
          rival |-> {},     \* requests awaiting the same statement on the same code then
          prev |-> {},      \* creates of the same URL answered before this arrived
          hit |-> 0,        \* id of the row a redirect incremented
          erred |-> FALSE ] \* an awaited statement was rejected

\* res.status(s).json({ error: m })
Error(s, m) == [ NoResp EXCEPT !.status = s, !.msg = m ]

\* Variant: a catch block that logs the error and sends nothing.
NothingSent == NoResp

\* res.status(500).json({ error: 'Internal server error' })
InternalError == Error(500, "Internal server error")
NotFound == Error(404, "URL not found")

Init ==
  /\ store \in { t \in SUBSET SeedRows : TableOK(t) }
  /\ seq = 5
  /\ clock = 4
  /\ req = [ r \in Reqs |-> Idle ]
  /\ init = store
  /\ deleted = {}

\* ------------------------------------------------ POST /api/shorten
Done(q, response) == [ q EXCEPT !.pc = "done", !.res = response ]

\* catch (err) { console.error(...); res.status(500).json(...) }: where a
\* rejected `await pool.query(...)` lands, in every handler
Caught(q) == Done([ q EXCEPT !.erred = TRUE ], InternalError)

\* res.json({ shortCode, shortUrl }) with the given status
CodeResponse(s, code) == [ NoResp EXCEPT !.status = s, !.shortCode = code ]

\* The handler up to its first await: validation, then the look-up is issued.
ReceiveCreate(r, body) ==
  /\ req[r].pc = "idle"
  /\ clock' = clock + 1
  /\ IF ~IsValidUrl(body)
     THEN req' = [ req EXCEPT ![r] =
                     Done([ Idle EXCEPT !.op = "create", !.url = body ],
                          Error(400, "Valid URL required (must start with http/https)")) ]
     ELSE req' = [ req EXCEPT ![r] =
                     [ Idle EXCEPT !.op = "create", !.pc = "select", !.url = body,
                                   !.prev = { q \in Reqs : /\ req[q].op = "create"
                                                           /\ req[q].pc = "done"
                                                           /\ req[q].url = body } ] ]
  /\ UNCHANGED << store, seq, init, deleted >>

\* After 'SELECT short_code ... WHERE long_url = $1': answer with an existing
\* row's code (rows[0]; the statement has no ORDER BY), or draw the first
\* candidate and issue the check.
AfterSelect(r) ==
  LET found == SelectByLongUrl(store, req[r].url)
  IN  /\ IF found.rows # {}
         THEN \E row \in found.rows :
                req' = [ req EXCEPT ![r] = Done(@, CodeResponse(200, row.short_code)) ]
         ELSE \E c \in RandomCodes :
                req' = [ req EXCEPT ![r] = [ @ EXCEPT !.pc = "check", !.code = c,
                                                       !.attempts = 0, !.gen = 1 ] ]
      /\ UNCHANGED << store, seq, deleted >>

\* After the check of the candidate: an error goes to the catch block; no row
\* leaves the loop and issues the insert; a row counts an attempt and either
\* draws again or, at MaxAttempts, gives up.
AfterCheck(r) ==
  LET q == [ req[r] EXCEPT !.free = (RowsByCode(store, req[r].code) = {}),
                           !.rival = { o \in Reqs \ { r } : /\ req[o].pc = "check"
                                                            /\ req[o].code = req[r].code } ]
      chk == CheckQuery(store, q.code)
  IN  /\ IF chk.err
         THEN req' = [ req EXCEPT ![r] = Caught(q) ]
         ELSE IF chk.rows = {}
         THEN req' = [ req EXCEPT ![r] = [ q EXCEPT !.pc = "insert" ] ]
         ELSE IF q.attempts + 1 < MaxAttempts
         THEN \E c \in RandomCodes :
                req' = [ req EXCEPT ![r] = [ q EXCEPT !.code = c,
                                                       !.attempts = q.attempts + 1,
                                                       !.gen = q.gen + 1 ] ]
         ELSE req' = [ req EXCEPT ![r] =
                         Done([ q EXCEPT !.attempts = q.attempts + 1 ],
                              Error(500, "Failed to generate unique code")) ]
      /\ UNCHANGED << store, seq, deleted >>

\* After the INSERT: 201 with the code, or the catch block on a rejected row.
\* The sequence has advanced either way.
AfterInsert(r) ==
  LET ins == InsertUrl(store, seq, req[r].code, req[r].url, clock)
  IN  /\ seq' = seq + 1
      /\ store' = ins.tbl
      /\ IF ins.err
         THEN /\ req' = [ req EXCEPT ![r] = Caught(@) ]
              /\ UNCHANGED deleted
         ELSE /\ req' = [ req EXCEPT ![r] = Done(@, CodeResponse(201, req[r].code)) ]
              /\ deleted' = deleted \ { req[r].code }

\* The create handler resumes when its pending statement settles.
CreateResume(r) ==
  /\ req[r].op = "create"
  /\ req[r].pc \in { "select", "check", "insert" }
  /\ CASE req[r].pc = "select" -> AfterSelect(r)
       [] req[r].pc = "check"  -> AfterCheck(r)
       [] req[r].pc = "insert" -> AfterInsert(r)
  /\ UNCHANGED << clock, init >>

\* ------------------------------------------ GET /api/urls/:shortCode
ReceiveGet(r, code) ==
  /\ req[r].pc = "idle"
  /\ clock' = clock + 1
  /\ req' = [ req EXCEPT ![r] = [ Idle EXCEPT !.op = "get", !.pc = "get", !.code = code ] ]
  /\ UNCHANGED << store, seq, init, deleted >>

\* res.json({ id, shortCode, longUrl, createdAt, clicks })
RowResponse(row) ==
  [ NoResp EXCEPT !.status = 200, !.id = row.id, !.shortCode = row.short_code,
                  !.longUrl = row.long_url, !.createdAt = row.created_at,
                  !.clicks = row.clicks ]

GetResume(r) ==
  /\ req[r].pc = "get"
  /\ LET got == SelectByCode(store, req[r].code)
     IN  IF got.rows = {}
         THEN req' = [ req EXCEPT ![r] = Done(@, NotFound) ]
         ELSE \E row \in got.rows : req' = [ req EXCEPT ![r] = Done(@, RowResponse(row)) ]
  /\ UNCHANGED << store, seq, clock, init, deleted >>

\* ------------------------------------------ PUT /api/urls/:shortCode
ReceiveUpdate(r, code, body) ==
  /\ req[r].pc = "idle"
  /\ clock' = clock + 1
  /\ IF ~IsValidUrl(body)
     THEN req' = [ req EXCEPT ![r] =
                     Done([ Idle EXCEPT !.op = "update", !.code = code, !.url = body ],
                          Error(400, "Valid URL required (must start with http/https")) ]
     ELSE req' = [ req EXCEPT ![r] =
                     [ Idle EXCEPT !.op = "update", !.pc = "update", !.code = code,
                                   !.url = body ] ]
  /\ UNCHANGED << store, seq, init, deleted >>

\* res.json({ id, shortCode, longUrl, clicks })
UpdateResponse(row) == [ RowResponse(row) EXCEPT !.createdAt = 0 ]

UpdateResume(r) ==
  /\ req[r].pc = "update"
  /\ LET upd == UpdateLongUrl(store, req[r].url, req[r].code)
     IN  /\ store' = upd.tbl
         /\ IF upd.rows = {}
            THEN req' = [ req EXCEPT ![r] = Done(@, NotFound) ]
            ELSE \E row \in upd.rows :
                   req' = [ req EXCEPT ![r] = Done(@, UpdateResponse(row)) ]
  /\ UNCHANGED << seq, clock, init, deleted >>

\* --------------------------------------- DELETE /api/urls/:shortCode
ReceiveDelete(r, code) ==
  /\ req[r].pc = "idle"
  /\ clock' = clock + 1
  /\ req' = [ req EXCEPT ![r] = [ Idle EXCEPT !.op = "delete", !.pc = "delete", !.code = code ] ]
  /\ UNCHANGED << store, seq, init, deleted >>

\* res.json({ message: 'URL deleted successfully', shortCode })
DeleteResponse(code) ==
  [ NoResp EXCEPT !.status = 200, !.msg = "URL deleted successfully", !.shortCode = code ]

DeleteResume(r) ==
  /\ req[r].pc = "delete"
  /\ LET del == DeleteByCode(store, req[r].code)
     IN  /\ store' = del.tbl
         /\ IF del.rows = {}
            THEN /\ req' = [ req EXCEPT ![r] = Done(@, NotFound) ]
                 /\ UNCHANGED deleted
            ELSE /\ req' = [ req EXCEPT ![r] = Done(@, DeleteResponse(req[r].code)) ]
                 /\ deleted' = deleted \cup { req[r].code }
  /\ UNCHANGED << seq, clock, init >>

\* --------------------------------------------------- GET /:shortCode
\* A reserved segment returns before any statement and sends nothing.
ReceiveRedirect(r, code) ==
  /\ req[r].pc = "idle"
  /\ clock' = clock + 1
  /\ req' = [ req EXCEPT ![r] =
                [ Idle EXCEPT !.op = "redirect", !.code = code,
                              !.pc = IF Reserved(code) THEN "returned" ELSE "redirect" ] ]
  /\ UNCHANGED << store, seq, init, deleted >>

\* res.redirect(long_url): 302 with the Location
RedirectResponse(url) == [ NoResp EXCEPT !.status = 302, !.longUrl = url ]

RedirectResume(r) ==
  /\ req[r].pc = "redirect"
  /\ LET inc == IncrementClicks(store, req[r].code)
     IN  /\ store' = inc.tbl
         /\ IF inc.err
            THEN req' = [ req EXCEPT ![r] = Caught(@) ]
            ELSE IF inc.rows = {}
            THEN req' = [ req EXCEPT ![r] = Done(@, Error(404, "Short URL not found")) ]
            ELSE \E row \in inc.rows :
                   req' = [ req EXCEPT ![r] =
                              Done([ @ EXCEPT !.hit = row.id,
                                              !.rival = { o \in Reqs \ { r } :
                                                            /\ req[o].pc = "redirect"
                                                            /\ req[o].code = req[r].code } ],
                                   RedirectResponse(row.long_url)) ]
  /\ UNCHANGED << seq, clock, init, deleted >>

\* ------------------------------------------------------ GET /api/urls
ReceiveList(r) ==
  /\ req[r].pc = "idle"
  /\ clock' = clock + 1
  /\ req' = [ req EXCEPT ![r] = [ Idle EXCEPT !.op = "list", !.pc = "list" ] ]
  /\ UNCHANGED << store, seq, init, deleted >>

\* one element of `urls`: { id, shortCode, longUrl, createdAt, clicks, shortUrl }
\* (shortUrl is the request's origin followed by shortCode)
ListEntry(row) ==
  [ id |-> row.id, shortCode |-> row.short_code, longUrl |-> row.long_url,
    createdAt |-> row.created_at, clicks |-> row.clicks ]

\* res.json({ urls: result.rows.map(...) })
ListResponse(rows) ==
  [ NoResp EXCEPT !.status = 200, !.urls = [ i \in 1 .. Len(rows) |-> ListEntry(rows[i]) ] ]

ListResume(r) ==
  /\ req[r].pc = "list"
  /\ \E asc \in BOOLEAN :
       req' = [ req EXCEPT ![r] = Done(@, ListResponse(ListQuery(store, asc).rows)) ]
  /\ UNCHANGED << store, seq, clock, init, deleted >>

\* ------------------------------------------------------ specification
Next ==
  \E r \in Reqs :
    \/ \E body \in Bodies : ReceiveCreate(r, body)
    \/ CreateResume(r)
    \/ \E code \in PathCodes : ReceiveGet(r, code)
    \/ GetResume(r)
    \/ \E code \in PathCodes, body \in Bodies : ReceiveUpdate(r, code, body)
    \/ UpdateResume(r)
    \/ \E code \in PathCodes : ReceiveDelete(r, code)
    \/ DeleteResume(r)
    \/ \E code \in RedirectPaths : ReceiveRedirect(r, code)
    \/ RedirectResume(r)
    \/ ReceiveList(r)
    \/ ListResume(r)

Spec == Init /\ [][Next]_vars

\* ------------------------------------------------ store failures
Pending(r) == req[r].pc \in { "select", "check", "insert", "get", "update", "delete",
                              "redirect", "list" }

\* The statement a handler awaits is rejected without effect (connection lost,
\* timeout): the handler resumes in its catch block.
StoreFault(r) ==
  /\ Pending(r)
  /\ req' = [ req EXCEPT ![r] = Caught(@) ]
  /\ UNCHANGED << store, seq, clock, init, deleted >>

\* A handler resumes with the outcome of the statement it awaits.
Resume(r) ==
  \/ CreateResume(r)
  \/ GetResume(r)
  \/ UpdateResume(r)
  \/ DeleteResume(r)
  \/ RedirectResume(r)
  \/ ListResume(r)

NextFault == Next \/ \E r \in Reqs : StoreFault(r)

\* Every statement eventually returns rows or an error.
SpecFault ==
  /\ Init
  /\ [][NextFault]_vars
  /\ \A r \in Reqs : WF_vars(Resume(r) \/ StoreFault(r))

\* ---------------------------------------- the list over large tables
\* The i-th short code: i written with the symbols of the alphabet.
CodeOf(i) ==
  nanoid([ k \in 1 .. CodeLen |-> ((i \div (36 ^ (CodeLen - k))) % 36) + 1 ])

\* A table of n rows; with `tie`, pairs of rows were created at the same time.
BigTable(n, tie) ==
  { [ id |-> i, short_code |-> CodeOf(i), long_url |-> UrlA,
      created_at |-> IF tie THEN (i + 1) \div 2 ELSE i, clicks |-> 0 ] : i \in 1 .. n }

\* Sizes below, at and above the limit of the statement.
ListSizes == { 0, 1, 2, ListLimit - 1, ListLimit, ListLimit + 1, ListLimit + 2 }

ListTables == { BigTable(n, tie) : n \in ListSizes, tie \in BOOLEAN }

InitList ==
  /\ store \in { t \in ListTables : TableOK(t) }
  /\ seq = ListLimit + 3
  /\ clock = ListLimit + 3
  /\ req = [ r \in Reqs |-> Idle ]
  /\ init = store
  /\ deleted = {}

NextList == \E r \in Reqs : ReceiveList(r) \/ ListResume(r)

SpecList == InitList /\ [][NextList]_vars

\* ============================================================ properties
\* Vocabulary of the properties, stated without the service's own helpers.
Answered(r, op) == req[r].op = op /\ req[r].pc = "done"

Sole(r) == \A o \in Reqs \ { r } : req[o].pc = "idle"

HttpString(u) ==
  /\ u # Undefined
  /\ Len(u) >= 4
  /\ u[1] = "h" /\ u[2] = "t" /\ u[3] = "t" /\ u[4] = "p"

IsShortCode(c) ==
  /\ c # Undefined
  /\ Len(c) = 6
  /\ \A i \in 1 .. 6 : \E j \in 1 .. Len(Alphabet) : c[i] = Alphabet[j]

Holds(tbl, code) == \E x \in tbl : x.short_code = code

\* C1: a create of a valid URL that no record has is answered 201 with a
\* generated 6-character [a-z0-9] code that no record held, and the store then
\* holds exactly one more record: that code, that URL, clicks 0.  (Stated for a
\* request that runs alone and whose last candidate no record had, so that
\* neither another request nor exhausted attempts explain a difference.)
C1_CreateInsertsNewRecord ==
  \A r \in Reqs :
    ( /\ Answered(r, "create")
      /\ Sole(r)
      /\ HttpString(req[r].url)
      /\ ~ \E x \in init : x.long_url = req[r].url
      /\ ~ Holds(init, req[r].code) )
    => /\ req[r].res.status = 201
       /\ IsShortCode(req[r].res.shortCode)
       /\ ~ Holds(init, req[r].res.shortCode)
       /\ \E row \in store :
            /\ row \notin init
            /\ store = init \cup { row }
            /\ row.short_code = req[r].res.shortCode
            /\ row.long_url = req[r].url
            /\ row.clicks = 0

\* C2: when a valid URL is submitted to create again after its first
\* submission was answered, the second answer is 200 with the short code of
\* the first answer.  (Stated for two requests that are the only ones, so no
\* update or delete comes between them, and for a first submission that did
\* not run out of attempts.)
C2_SecondCreateReturnsSameCode ==
  \A r \in Reqs : \A q \in req[r].prev :
    ( /\ Answered(r, "create")
      /\ HttpString(req[r].url)
      /\ \A o \in Reqs \ { r, q } : req[o].pc = "idle"
      /\ req[q].res.msg # "Failed to generate unique code" )
    => /\ req[r].res.status = 200
       /\ req[r].res.shortCode # Undefined
       /\ req[r].res.shortCode = req[q].res.shortCode

\* C8: a create that reached the generator called it at most 5 times; it
\* inserted the first candidate that no record had; and it answered 'Failed to
\* generate unique code' exactly when 5 candidates were all taken, inserting
\* nothing.  (Stated for a request that runs alone.)
C8_BoundedCodeGeneration ==
  \A r \in Reqs :
    ( Answered(r, "create") /\ Sole(r) /\ req[r].gen >= 1 )
    => /\ req[r].gen <= 5
       /\ IF ~ Holds(init, req[r].code)
          THEN /\ req[r].res.status = 201
               /\ req[r].res.shortCode = req[r].code
               /\ \E row \in store : row.short_code = req[r].code /\ store = init \cup { row }
          ELSE /\ req[r].gen = 5
               /\ req[r].res = [ NoResp EXCEPT !.status = 500,
                                                !.msg = "Failed to generate unique code" ]
               /\ store = init

\* C9: two creates of different URLs that drew the same candidate, each
\* checked while no record had it and while the other had not inserted: once
\* both are answered, one got 201, the other 500 'Internal server error', and
\* the store holds exactly one record with that code, with the URL of the 201.
C9_InsertRaceHasOneWinner ==
  \A r, q \in Reqs :
    ( /\ r # q
      /\ Answered(r, "create") /\ Answered(q, "create")
      /\ \A o \in Reqs \ { r, q } : req[o].pc = "idle"
      /\ req[r].url # req[q].url
      /\ req[r].gen >= 1 /\ req[q].gen >= 1
      /\ req[r].code = req[q].code
      /\ req[r].free /\ req[q].free
      /\ q \in req[r].rival )
    => \E w \in { r, q } : \E l \in { r, q } \ { w } :
         /\ req[w].res.status = 201
         /\ req[l].res = [ NoResp EXCEPT !.status = 500, !.msg = "Internal server error" ]
         /\ \E row \in store :
              /\ row.long_url = req[w].url
              /\ \A x \in store : x.short_code = req[w].code <=> x = row

\* clicks of the row with this id when the server started; 0 for a row
\* inserted since.
Base(id) == IF \E x \in init : x.id = id THEN (CHOOSE x \in init : x.id = id).clicks ELSE 0

Redirected(id) ==
  { r \in Reqs : Answered(r, "redirect") /\ req[r].res.status = 302 /\ req[r].hit = id }

\* C3: every record's clicks equals its starting value plus the number of
\* redirects answered 302 for it, whatever the interleaving: each successful
\* redirect adds exactly 1 and none is lost.
C3_NoLostIncrement ==
  \A row \in store : row.clicks = Base(row.id) + Cardinality(Redirected(row.id))

\* Two redirects of one code, the second in flight when the first ran, both
\* answered 302, and the record two clicks up.
C3_Witness ==
  \E r, q \in Reqs : \E row \in store :
    /\ r # q
    /\ req[r].code = row.short_code /\ req[q].code = row.short_code
    /\ { r, q } \subseteq Redirected(row.id)
    /\ q \in req[r].rival
    /\ row.clicks = Base(row.id) + 2

\* C4: a create or an update whose URL is missing, empty or does not start
\* with 'http' is answered 400 at once and the store is unchanged.
C4_InvalidUrlRejected ==
  [][ \A r \in Reqs :
        ( /\ req[r].pc = "idle"
          /\ req'[r].op \in { "create", "update" }
          /\ ~ HttpString(req'[r].url) )
        => /\ req'[r].pc = "done"
           /\ req'[r].res.status = 400
           /\ req'[r].res.msg # ""
           /\ store' = store ]_vars

\* A create of a non-empty URL without the prefix and an update with an empty
\* URL, both answered 400, with records in the store.
C4_Witness ==
  \E r, q \in Reqs :
    /\ Answered(r, "create") /\ req[r].url = UrlX /\ req[r].res.status = 400
    /\ Answered(q, "update") /\ req[q].url = Empty /\ req[q].res.status = 400
    /\ Holds(store, req[q].code)

\* C5: a get, an update with a valid URL, a delete or a redirect whose code no
\* record has when its statement runs is answered 404 and the store is
\* unchanged.
C5_UnknownCodeNotFound ==
  [][ \A r \in Reqs :
        ( /\ req[r].pc \in { "get", "update", "delete", "redirect" }
          /\ req'[r].pc = "done"
          /\ ~ Holds(store, req[r].code) )
        => /\ req'[r].res.status = 404
           /\ req'[r].res.msg # ""
           /\ store' = store ]_vars

\* An update and a redirect of a code that no record has, answered 404, while
\* the store holds another record.
C5_Witness ==
  \E r, q \in Reqs :
    /\ Answered(r, "update") /\ req[r].res.status = 404
    /\ Answered(q, "redirect") /\ req[q].res.status = 404
    /\ store # {}
    /\ ~ Holds(store, req[r].code) /\ ~ Holds(store, req[q].code)

\* C6: an update with a valid URL of a code that a record has is answered 200
\* with that record, whose longUrl is now the replacement and whose id,
\* shortCode, createdAt and clicks are as before; every other record is as
\* before.
C6_UpdateChangesLongUrlOnly ==
  [][ \A r \in Reqs :
        ( /\ req[r].pc = "update"
          /\ req'[r].pc = "done"
          /\ Holds(store, req[r].code) )
        => \E old \in store :
             /\ old.short_code = req[r].code
             /\ store' = (store \ { old }) \cup { [ old EXCEPT !.long_url = req[r].url ] }
             /\ req'[r].res.status = 200
             /\ req'[r].res.id = old.id
             /\ req'[r].res.shortCode = old.short_code
             /\ req'[r].res.longUrl = req[r].url
             /\ req'[r].res.clicks = old.clicks ]_vars

\* An update answered 200 on a record with clicks, beside another record.
C6_Witness ==
  \E r \in Reqs : \E row \in store :
    /\ Answered(r, "update") /\ req[r].res.status = 200
    /\ req[r].url = UrlC
    /\ row.short_code = req[r].code /\ row.long_url = UrlC
    /\ row.clicks > 0
    /\ Cardinality(store) = 2

\* C7: a delete of a code that a record has is answered 200 and removes that
\* record and no other; from then on, until a create inserts the code again, a
\* get of the code is answered 404.
C7_DeleteThenGetNotFound ==
  [][ \A r \in Reqs :
        /\ ( /\ req[r].pc = "delete"
             /\ req'[r].pc = "done"
             /\ Holds(store, req[r].code) )
           => /\ req'[r].res.status = 200
              /\ store' = { x \in store : x.short_code # req[r].code }
              /\ Cardinality(store') = Cardinality(store) - 1
              /\ req[r].code \in deleted'
        /\ ( /\ req[r].pc = "get"
             /\ req'[r].pc = "done"
             /\ req[r].code \in deleted )
           => req'[r].res.status = 404 ]_vars

\* A record present at the start, deleted with 200, then looked up with 404,
\* while another record remains.
C7_Witness ==
  \E r, q \in Reqs :
    /\ Answered(r, "delete") /\ req[r].res.status = 200
    /\ Answered(q, "get") /\ req[q].res.status = 404
    /\ req[q].code = req[r].code
    /\ Holds(init, req[r].code)
    /\ req[r].code \in deleted
    /\ store # {}

\* C10: no two records of the store have the same shortCode.
C10_ShortCodesDistinct ==
  Cardinality({ x.short_code : x \in store }) = Cardinality(store)

\* Two records in the store after a create and an update have been answered.
C10_Witness ==
  \E r, q \in Reqs :
    /\ Answered(r, "create") /\ HttpString(req[r].url)
    /\ Answered(q, "update") /\ req[q].res.status = 200
    /\ Cardinality(store) = 2

\* C11: every record's longUrl is a non-empty string that starts with 'http'.
C11_StoredUrlsStartWithHttp ==
  \A x \in store : x.long_url # Empty /\ HttpString(x.long_url)

\* An update has stored its replacement URL and a create of a URL without the
\* prefix has been turned away.
C11_Witness ==
  \E r, q \in Reqs : \E x \in store :
    /\ Answered(r, "update") /\ req[r].res.status = 200
    /\ x.short_code = req[r].code /\ x.long_url = req[r].url /\ x.long_url # UrlA
    /\ Answered(q, "create") /\ req[q].url = UrlX

\* C12: across every step a record's clicks does not decrease, it changes
\* only in a step in which a redirect of that record's code is answered 302,
\* and a record that appears in the step has clicks 0.
C12_ClicksOnlyGrowByRedirect ==
  [][ \A x \in store' :
        IF \E o \in store : o.id = x.id
        THEN LET o == CHOOSE o \in store : o.id = x.id
             IN  /\ x.clicks >= o.clicks
                 /\ x.clicks # o.clicks
                    => \E r \in Reqs : /\ req[r].pc = "redirect"
                                       /\ req[r].code = o.short_code
                                       /\ req'[r].pc = "done"
                                       /\ req'[r].res.status = 302
        ELSE x.clicks = 0 ]_vars

\* A record one click above its starting value after a redirect and an
\* update of it have both been answered.
C12_Witness ==
  \E r, q \in Reqs : \E x \in store :
    /\ Answered(r, "redirect") /\ req[r].res.status = 302 /\ req[r].code = x.short_code
    /\ Answered(q, "update") /\ req[q].res.status = 200 /\ req[q].code = x.short_code
    /\ x.clicks = Base(x.id) + 1

\* C17: a redirect answered 302 changes nothing but the clicks of the one
\* record with the requested code, and its Location is the longUrl that record
\* has when the increment runs (so the replacement, after an update).
C17_RedirectChangesClicksOnly ==
  [][ \A r \in Reqs :
        ( /\ req[r].pc = "redirect"
          /\ req'[r].pc = "done"
          /\ req'[r].res.status = 302 )
        => \E old \in store :
             /\ old.short_code = req[r].code
             /\ store' = (store \ { old }) \cup { [ old EXCEPT !.clicks = old.clicks + 1 ] }
             /\ req'[r].res.longUrl = old.long_url ]_vars

\* An update to UrlC answered 200, then a redirect of the same code answered
\* 302 to UrlC, beside another record.
C17_Witness ==
  \E r, q \in Reqs : \E x \in store :
    /\ Answered(q, "update") /\ req[q].res.status = 200 /\ req[q].url = UrlC
    /\ Answered(r, "redirect") /\ req[r].res.status = 302 /\ req[r].code = req[q].code
    /\ req[r].res.longUrl = UrlC
    /\ x.short_code = req[r].code /\ x.long_url = UrlC /\ x.clicks = Base(x.id) + 1
    /\ Cardinality(store) = 2

\* C13: a redirect request whose path segment is 'api' or 'health' never has
\* a response and never awaits a statement, and the step that handles it
\* leaves the store as it is, whether or not a record has that code.
C13_ReservedSegmentUnanswered ==
  [][ \A r \in Reqs :
        ( /\ req'[r].op = "redirect"
          /\ req'[r].code \in { Api, Health } )
        => /\ req'[r].pc = "returned"
           /\ req'[r].res = NoResp
           /\ req'[r] # req[r] => store' = store ]_vars

\* GET /api has returned unanswered while a record with short code 'api'
\* exists, untouched, and a redirect of another code was answered 302.
C13_Witness ==
  \E r, q \in Reqs : \E x \in store :
    /\ req[r].op = "redirect" /\ req[r].code = Api /\ req[r].pc = "returned"
    /\ req[r].res.status = 0
    /\ x.short_code = Api /\ x.clicks = 0
    /\ Answered(q, "redirect") /\ req[q].res.status = 302

\* C14: a list is answered 200 with min(100, number of records) entries, each
\* a different record of the store, in order of createdAt descending, no
\* record left out being newer than a listed one; the store is unchanged.
C14_ListLatestHundred ==
  [][ \A r \in Reqs :
        ( req[r].pc = "list" /\ req'[r].pc = "done" )
        => LET out == req'[r].res.urls
               n == Cardinality(store)
           IN  /\ req'[r].res.status = 200
               /\ Len(out) = IF n < 100 THEN n ELSE 100
               /\ \A i \in 1 .. Len(out) :
                    \E x \in store :
                      /\ out[i].id = x.id /\ out[i].shortCode = x.short_code
                      /\ out[i].longUrl = x.long_url /\ out[i].createdAt = x.created_at
                      /\ out[i].clicks = x.clicks
               /\ \A i, j \in 1 .. Len(out) :
                    i < j => out[i].id # out[j].id /\ out[i].createdAt >= out[j].createdAt
               /\ \A x \in store :
                    (\A i \in 1 .. Len(out) : out[i].id # x.id)
                    => \A i \in 1 .. Len(out) : out[i].createdAt >= x.created_at
               /\ store' = store ]_vars

\* A list of 100 entries from a table of more than 100 records, the first
\* newer than the last.
C14_Witness ==
  \E r \in Reqs :
    /\ Answered(r, "list") /\ req[r].res.status = 200
    /\ Cardinality(store) > 100
    /\ Len(req[r].res.urls) = 100
    /\ req[r].res.urls[1].createdAt > req[r].res.urls[100].createdAt

\* C15: a request issues at most one mutating statement, as its last step;
\* every change of the store happens in such a step of one request, which is
\* answered 200, 201 or 302 in it.  So a request answered 400, 404 or 500 has
\* not changed the store, and an answered request takes no further step.
C15_NoPartialEffect ==
  [][ /\ store' # store => \E r \in Reqs : req'[r] # req[r]
      /\ \A r \in Reqs :
           req'[r] # req[r]
           => /\ req[r].pc # "done"
              /\ req[r].pc \in { "insert", "update", "delete", "redirect" }
                 => req'[r].pc = "done"
              /\ store' # store
                 => /\ req[r].pc \in { "insert", "update", "delete", "redirect" }
                    /\ req'[r].res.status \in { 200, 201, 302 } ]_vars

\* A redirect has taken a record to the largest int4, the next redirect of it
\* was answered 500, and the record is as the first left it.
C15_Witness ==
  \E r, q \in Reqs : \E x \in store :
    /\ Answered(r, "redirect") /\ req[r].res.status = 302 /\ req[r].code = x.short_code
    /\ Answered(q, "redirect") /\ req[q].res.status = 500 /\ req[q].code = x.short_code
    /\ x.clicks = Base(x.id) + 1

\* C16 as claimed: no two records have the same longUrl.
C16_OneRecordPerLongUrl ==
  \A x, y \in store : x.long_url = y.long_url => x = y

\* C16, amended: a create of a URL that some record has is answered 200 with
\* the short code of a record that has this longUrl, and changes nothing
\* (several records may have the longUrl; the code is that of any of them).
C16_CreateReturnsCodeOfThatUrl ==
  [][ \A r \in Reqs :
        ( /\ req[r].op = "create"
          /\ req[r].pc = "select"
          /\ req'[r] # req[r]
          /\ \E x \in store : x.long_url = req[r].url )
        => /\ req'[r].pc = "done"
           /\ req'[r].res.status = 200
           /\ \E x \in store : /\ x.long_url = req[r].url
                               /\ req'[r].res.shortCode = x.short_code
           /\ store' = store ]_vars

\* Two records with one longUrl (an update gave the second the URL of the
\* first), and a create of that URL answered 200 with the second one's code.
C16_Witness ==
  \E r, q \in Reqs : \E x, y \in store :
    /\ x # y /\ x.long_url = y.long_url
    /\ Answered(q, "update") /\ req[q].res.status = 200 /\ req[q].code = y.short_code
    /\ Answered(r, "create") /\ req[r].url = x.long_url
    /\ req[r].res.status = 200 /\ req[r].res.shortCode = y.short_code

\* C18: every request whose handler awaits a statement is eventually answered;
\* its answer, once sent, stays the only one; and a request whose statement
\* was rejected is answered 500 with an error body.
C18_EveryRequestAnswered ==
  /\ \A r \in Reqs :
       (req[r].pc \notin { "idle", "returned", "done" })
       ~> (req[r].pc = "done" /\ req[r].res.status # 0)
  /\ [][ \A r \in Reqs :
           /\ req[r].pc = "done" => req'[r] = req[r]
           /\ req'[r].erred
              => /\ req'[r].pc = "done"
                 /\ req'[r].res.status = 500
                 /\ req'[r].res.msg = "Internal server error" ]_vars

\* A list whose statement failed and a create whose candidate check was
\* rejected, both answered 500.
C18_Witness ==
  \E r, q \in Reqs :
    /\ Answered(r, "list") /\ req[r].erred /\ req[r].res.status = 500
    /\ Answered(q, "create") /\ req[q].erred /\ req[q].gen = 1 /\ req[q].res.status = 500

====
